---- MODULE Spec2Model ----
(***************************************************************************)
(* Model of src/main.py: the daily ingestion-and-delivery run.             *)
(* One run of main_logic (plus the top-level crash handler of __main__) is *)
(* a sequential process; every action below is one stretch of that         *)
(* coroutine between two awaited collaborator calls.  The collaborators    *)
(* (source client, storage, dedup table, webhook) answer                   *)
(* nondeterministically.                                                   *)
(***************************************************************************)
EXTENDS Integers, Sequences, FiniteSets, TLC

\* ---------------------------------------------------------------- bounds
MaxMsgs == 2        \* messages in the window of the first channel

\* ------------------------------------------------------ program constants
\* lines 110-121: the mapping resolved from TARGET_CHANNELS = "100:BrandA,200";
\* a channel is named by its position in the mapping
channel_map == << [source |-> "100", brand |-> "BrandA"],
                  [source |-> "200", brand |-> "Uncategorized"] >>
NumChannels == Len(channel_map)
max_retries == 3
WindowSize == 9     \* range(message.id, message.id + 9)

Required == {"TG_API_ID", "TG_API_HASH", "TG_SESSION_STRING",
             "SUPABASE_URL", "SUPABASE_KEY", "TARGET_CHANNELS"}
Settings == Required \cup {"N8N_WEBHOOK_URL"}

\* --------------------------------------------------------------- helpers
RECURSIVE Str(_)
\* str(message.id): the decimal digits of a positive integer
Str(n) == IF n < 10 THEN <<n>> ELSE Str(n \div 10) \o <<n % 10>>

RECURSIVE SeqsUpTo(_, _)
SeqsUpTo(S, n) ==
    IF n = 0 THEN {<<>>}
    ELSE LET shorter == SeqsUpTo(S, n - 1)
         IN  shorter \cup {Append(s, x) : s \in {t \in shorter : Len(t) = n - 1}, x \in S}

RECURSIVE GroupIds(_, _, _, _)
\* the ids of lo..hi, ascending, whose message exists and carries grouped_id g
GroupIds(ms, lo, hi, g) ==
    IF lo > hi THEN <<>>
    ELSE (IF lo <= Len(ms) /\ ms[lo].grouped_id = g THEN <<lo>> ELSE <<>>)
         \o GroupIds(ms, lo + 1, hi, g)

\* ------------------------------------------------------------- the source
\* RawMessage as the code reads it: message.action, .text, .media/.photo,
\* .grouped_id (0 stands for None).  The id of a message is its position in
\* the channel.
Msg(a, t, m, g) == [action |-> a, text |-> t, media |-> m, grouped_id |-> g]

GroupedIds == {1}                         \* the grouped_id values in the source

MsgTypes ==
    { Msg(TRUE,  <<>>,  "none",  0),      \* service action
      Msg(FALSE, <<>>,  "none",  0),      \* neither text nor media
      Msg(FALSE, <<1>>, "none",  0),      \* text only
      Msg(FALSE, <<>>,  "photo", 0),      \* single photo
      Msg(FALSE, <<1>>, "video", 0) }     \* single video with caption
    \cup { Msg(FALSE, <<>>, "photo", g) : g \in GroupedIds }   \* member of an album

\* the later channels hold at most one message
ChannelLen(c) == IF c = 1 THEN MaxMsgs ELSE 1
Feeds(c) == SeqsUpTo(MsgTypes, ChannelLen(c))

\* the channels hold text messages, single photos and album members: the
\* messages line 208 is reached for
PlainFeeds(c) ==
    {ms \in Feeds(c) :
        \A i \in 1..Len(ms) :
            /\ ~ms[i].action
            /\ ms[i].media # "video"
            /\ ms[i].text # <<>> \/ ms[i].media # "none"}

\* the first channel holds album members whose texts differ in length and,
\* at equal length, in content
AlbumTexts == {<<>>, <<1>>, <<2>>, <<1, 1>>}
CaptionFeeds(c) ==
    IF c = 1
    THEN SeqsUpTo({Msg(FALSE, t, "photo", g) : t \in AlbumTexts, g \in GroupedIds}, MaxMsgs)
    ELSE PlainFeeds(c)

\* the channels hold the same messages in both runs: the first channel album
\* members and text messages, the later ones at most a photo
RepeatFeeds(c) ==
    IF c = 1
    THEN SeqsUpTo({Msg(FALSE, <<>>, "photo", g) : g \in GroupedIds}
                    \cup {Msg(FALSE, <<1>>, "none", 0)}, MaxMsgs)
    ELSE {<<>>, <<Msg(FALSE, <<>>, "photo", 0)>>}

\* what the dedup table can hold for one (channel, brand) pair
DedupChoices(c) == {{}} \cup {{Str(i)} : i \in 1..ChannelLen(c)}

\* ---------------------------------------------------------------- storage
Path(c, i) == [ch |-> c, id |-> i]
NoPath == Path(0, 0)                      \* None
PublicUrl(p) == [url |-> p]
NoUrl == PublicUrl(NoPath)                \* None

VARIABLES
    env,                  \* the settings present in os.environ
    pc,                   \* position of the run
    exit_code,            \* -1 while running
    chan,                 \* index in channel_map of the channel being scanned
    msgs,                 \* the messages of that channel
    existing_ids_set,
    idx,                  \* position of iter_messages
    processed_groups,
    payloads,
    real_group,           \* ids of the album being assembled
    mem,                  \* position in real_group
    media_urls,
    album_uploaded_paths,
    final_text,
    path,                 \* id of the message whose media is in temp_dir, 0 for none
    storage,              \* objects held by the bucket
    sent,                 \* payloads already posted
    success_count,
    fail_count,
    \* bookkeeping of what the run did
    alerts,               \* the calls of send_alert
    rollbacks,            \* the calls of storage remove
    uploads,              \* the calls of upload_to_supabase_with_retry
    downloads,            \* the calls of download_media
    attempts,             \* the payloads posted, by position, in order
    delivered,            \* positions of the payloads the webhook answered with a 2xx status
    conn,                 \* what the source answered to connect / is_user_authorized
    net,                  \* kinds of network activity so far
    loaded,               \* the dedup index loaded per channel
    scanned,              \* channels whose scan began
    failed,               \* channels whose scan raised
    noFile,               \* media members of the current album whose download gave no file
    temp_dir,             \* the downloaded files present in the temporary directory
    dedup_failed,         \* channels whose dedup query raised
    db_check_limit,       \* the limit of the last dedup query
    \* the surroundings of the run
    alert_endpoint,       \* "up", or "down" when the POST of send_alert fails
    source,               \* what the channels of the source hold
    archive,              \* per channel, the answers the dedup table may give
    fetch_limit,          \* FETCH_LIMIT
    run,                  \* 1 for the first run over the channels, 2 for the second
    delivered_groups,     \* the groups whose album record an earlier run delivered
    \* a function of the program called on its own
    arg,
    ret

locals == <<real_group, mem, media_urls, album_uploaded_paths, final_text, path, noFile>>
feed == <<msgs, existing_ids_set, loaded, scanned>>
scan == <<chan, idx, failed, feed>>
push == <<sent, success_count, fail_count, attempts, delivered>>
store == <<storage, rollbacks, uploads, downloads>>
fixed == <<alert_endpoint, source, archive, fetch_limit, run, delivered_groups, arg, ret>>
vars == <<env, pc, exit_code, conn, processed_groups, payloads, alerts, net,
          locals, scan, push, store, temp_dir, dedup_failed, db_check_limit, fixed>>

\* ------------------------------------------------------------- the source
\* what the run may find in channel c: any feed of a family, or the feed the
\* channel is known to hold
Source(kind) == [kind |-> kind, held |-> <<>>]
Held(feeds) == [kind |-> "held", held |-> feeds]

SourceFeeds(c) ==
    CASE source.kind = "any"     -> Feeds(c)
      [] source.kind = "plain"   -> PlainFeeds(c)
      [] source.kind = "caption" -> CaptionFeeds(c)
      [] source.kind = "held"    -> {source.held[c]}

\* ------------------------------------------------------------- send_alert
\* a faulty variant of AlertOutcome: the exception of a failed POST leaves
\* send_alert
AlertOutcome_Raises(configured, endpoint) ==
    IF ~configured THEN "unconfigured"
    ELSE IF endpoint = "up" THEN "sent"
    ELSE "raised"

\* lines 33-53: what a call of send_alert comes to: without N8N_WEBHOOK_URL it
\* returns at once, and an exception of the POST is caught and logged
AlertOutcome(configured, endpoint) ==
    IF ~configured THEN "unconfigured"
    ELSE IF endpoint = "up" THEN "sent"
    ELSE "swallowed"

\* posted tells whether a POST was made, outcome how the call ended
AlertCall(level) ==
    [level |-> level, posted |-> "N8N_WEBHOOK_URL" \in env,
     outcome |-> AlertOutcome("N8N_WEBHOOK_URL" \in env, alert_endpoint)]
send_alert(log, level) == Append(log, AlertCall(level))

\* an exception leaving send_alert would propagate into its caller
Escapes(call) == call.outcome = "raised"
AlertNet == IF "N8N_WEBHOOK_URL" \in env THEN {"alert"} ELSE {}

\* the state of a run when main_logic is entered
RunStart ==
    /\ pc = "start"
    /\ exit_code = -1
    /\ chan = 0
    /\ msgs = <<>>
    /\ existing_ids_set = {}
    /\ idx = 0
    /\ processed_groups = {}
    /\ payloads = <<>>
    /\ real_group = <<>>
    /\ mem = 0
    /\ media_urls = <<>>
    /\ album_uploaded_paths = <<>>
    /\ final_text = <<>>
    /\ path = 0
    /\ storage = {}
    /\ sent = 0
    /\ success_count = 0
    /\ fail_count = 0
    /\ alerts = <<>>
    /\ rollbacks = <<>>
    /\ uploads = <<>>
    /\ downloads = {}
    /\ attempts = <<>>
    /\ delivered = {}
    /\ conn = "none"
    /\ net = {}
    /\ loaded = [c \in 1..NumChannels |-> {}]
    /\ scanned = <<>>
    /\ failed = {}
    /\ noFile = 0
    /\ temp_dir = {}
    /\ dedup_failed = {}
    /\ db_check_limit = 0

\* the answers of the dedup table: the query raises, or gives its rows
Answer(ok, rows) == [ok |-> ok, rows |-> rows]

\* no function has been called on its own
Idle == [idle |-> TRUE]

Init ==
    /\ env \in {Settings} \cup {Settings \ {s} : s \in Settings}
    /\ RunStart
    /\ alert_endpoint = "up"
    /\ source = Source("any")
    /\ archive = [c \in 1..NumChannels |-> {Answer(TRUE, r) : r \in DedupChoices(c)}]
    /\ fetch_limit = 200
    /\ run = 1
    /\ delivered_groups = {}
    /\ arg = Idle
    /\ ret = Idle

\* -------------------------------------------------------- start of the run
\* lines 97-108: the required settings are read; a missing one alerts and
\* raises ValueError.
EnvComplete(e) == Required \subseteq e

LoadEnv ==
    /\ pc = "start"
    /\ IF EnvComplete(env)
       THEN /\ pc' = "connect"
            /\ UNCHANGED <<alerts, net>>
       ELSE /\ pc' = "crash"
            /\ alerts' = send_alert(alerts, "Config_Error")
            /\ net' = net \cup AlertNet
    /\ UNCHANGED <<env, conn, exit_code, processed_groups, payloads, locals, scan, push, store>>
    /\ UNCHANGED <<temp_dir, dedup_failed, db_check_limit, fixed>>

\* lines 357-376: an exception leaving main_logic is alerted, then os._exit(1)
CrashHandler ==
    /\ pc = "crash"
    /\ pc' = "exited"
    /\ exit_code' = 1
    /\ alerts' = send_alert(alerts, "CRITICAL_CRASH")
    /\ net' = net \cup AlertNet
    /\ UNCHANGED <<env, conn, processed_groups, payloads, locals, scan, push, store>>
    /\ UNCHANGED <<temp_dir, dedup_failed, db_check_limit, fixed>>

\* a faulty variant of AfterConnect: an unauthorized session is alerted but
\* the run goes on
AfterConnect_Proceeds(o) ==
    CASE o = "ok"           -> [pc |-> "channel", exit |-> -1, alert |-> <<>>]
      [] o = "unauthorized" -> [pc |-> "channel", exit |-> -1, alert |-> <<"Fatal">>]
      [] o = "raise"        -> [pc |-> "crash",   exit |-> -1, alert |-> <<"Fatal">>]

\* lines 142-152: what follows each outcome of connect / is_user_authorized
AfterConnect(o) ==
    CASE o = "ok"           -> [pc |-> "channel", exit |-> -1, alert |-> <<>>]
      [] o = "unauthorized" -> [pc |-> "exited",  exit |-> 1,  alert |-> <<"Fatal">>]
      [] o = "raise"        -> [pc |-> "crash",   exit |-> -1, alert |-> <<"Fatal">>]

Connect ==
    /\ pc = "connect"
    /\ \E o \in {"ok", "unauthorized", "raise"} :
         LET r == AfterConnect(o) IN
         /\ conn' = o
         /\ pc' = IF r.alert # <<>> /\ Escapes(AlertCall(r.alert[1])) THEN "crash" ELSE r.pc
         /\ exit_code' = IF r.alert # <<>> /\ Escapes(AlertCall(r.alert[1])) THEN -1 ELSE r.exit
         /\ alerts' = IF r.alert = <<>> THEN alerts ELSE send_alert(alerts, r.alert[1])
         /\ net' = net \cup {"connect"} \cup (IF r.alert = <<>> THEN {} ELSE AlertNet)
    /\ chan' = 1
    /\ UNCHANGED <<env, processed_groups, payloads, locals, push, store,
                   idx, failed, feed>>
    /\ UNCHANGED <<temp_dir, dedup_failed, db_check_limit, fixed>>

\* ------------------------------------------------------- scanning channels
\* lines 178-202: the dedup index of the channel is loaded (a failed query
\* leaves it empty) and the iteration over the channel's messages starts.
\* a faulty variant of LoadIndex: the rows are used although the query raised
LoadIndex_IgnoresFailure(q, rows) == rows

\* lines 182-198: existing_ids_set stays empty when the query raises
LoadIndex(q, rows) == IF q = "ok" THEN rows ELSE {}

Max(a, b) == IF a > b THEN a ELSE b

\* line 184
DbCheckLimit(limit) == Max(limit * 2, 1000)

ScanChannel ==
    /\ pc = "channel"
    /\ chan <= NumChannels
    /\ \E answer \in archive[chan], ms \in SourceFeeds(chan) :
         LET q == IF answer.ok THEN "ok" ELSE "fail" IN
         /\ existing_ids_set' = LoadIndex(q, answer.rows)
         /\ loaded' = [loaded EXCEPT ![chan] = LoadIndex(q, answer.rows)]
         /\ dedup_failed' = IF q = "fail" THEN dedup_failed \cup {chan} ELSE dedup_failed
         /\ msgs' = ms
    /\ db_check_limit' = DbCheckLimit(fetch_limit)
    /\ idx' = 1
    /\ scanned' = Append(scanned, chan)
    /\ net' = net \cup {"dedup"}
    /\ pc' = "iter"
    /\ UNCHANGED <<env, conn, exit_code, processed_groups, payloads, alerts, locals,
                   chan, failed, push, store>>
    /\ UNCHANGED <<temp_dir, fixed>>

\* a faulty variant of IsDuplicate: the numeric id is looked up without str(),
\* and a number is never a member of a set of strings
IsDuplicate_NoStr(id, ids) == FALSE

\* line 208
IsDuplicate(id, ids) == Str(id) \in ids

\* a faulty variant of GroupSeen: the processed set is never consulted
GroupSeen_Never(g, processed) == FALSE

\* line 220
GroupSeen(g, processed) == g \in processed

\* lines 204-220, 270, 294: what the loop body does with one message
Classify(message, id, ids, processed) ==
    IF message.action THEN "skip"
    ELSE IF message.text = <<>> /\ message.media = "none" THEN "skip"
    ELSE IF IsDuplicate(id, ids) THEN "skip"
    ELSE IF message.grouped_id # 0
         THEN (IF GroupSeen(message.grouped_id, processed) THEN "skip" ELSE "album")
    ELSE IF message.media # "none" THEN "single"
    ELSE "text"

\* lines 299-307; group is bookkeeping, the payload does not carry it
Payload(c, id, text, urls, type, g) ==
    [source_channel |-> c, content |-> text, media_urls |-> urls,
     media_type |-> type, message_id |-> Str(id), group |-> g]

\* a faulty variant of NewText: a text as long as the one kept replaces it
NewText_LastWins(m, text) ==
    IF m.text # <<>> /\ Len(m.text) >= Len(text) THEN m.text ELSE text

\* lines 266-267
NewText(m, text) == IF m.text # <<>> /\ Len(m.text) > Len(text) THEN m.text ELSE text

\* the loop body is left by an exception that no handler of main_logic
\* catches: the locals are gone
Propagate ==
    /\ pc' = "crash"
    /\ UNCHANGED <<payloads, idx>>
    /\ real_group' = <<>>
    /\ mem' = 0
    /\ media_urls' = <<>>
    /\ album_uploaded_paths' = <<>>
    /\ final_text' = <<>>
    /\ path' = 0
    /\ noFile' = 0

\* the loop body is over: the next message is awaited, the locals are gone
EndMessage(records) ==
    /\ payloads' = records
    /\ pc' = "iter"
    /\ idx' = idx + 1
    /\ real_group' = <<>>
    /\ mem' = 0
    /\ media_urls' = <<>>
    /\ album_uploaded_paths' = <<>>
    /\ final_text' = <<>>
    /\ path' = 0
    /\ noFile' = 0

\* lines 202-226, 293-311: one step of iter_messages and the loop body up to
\* its first awaited call
IterMessage ==
    /\ pc = "iter"
    /\ net' = net \cup {"iter"}
    /\ IF idx > Len(msgs) \/ idx > fetch_limit
       THEN /\ pc' = "channel"
            /\ chan' = chan + 1
            /\ msgs' = <<>>
            /\ existing_ids_set' = {}
            /\ idx' = 0
            /\ UNCHANGED <<processed_groups, payloads, locals>>
       ELSE LET message == msgs[idx]
                what == Classify(message, idx, existing_ids_set, processed_groups)
            IN  /\ UNCHANGED <<chan, msgs, existing_ids_set>>
                /\ CASE what = "skip" ->
                          /\ EndMessage(payloads)
                          /\ UNCHANGED processed_groups
                     [] what = "text" ->
                          /\ EndMessage(Append(payloads,
                                Payload(chan, idx, message.text, <<>>, "text", 0)))
                          /\ UNCHANGED processed_groups
                     [] what = "single" ->
                          /\ pc' = "single_dl"
                          /\ final_text' = message.text
                          /\ UNCHANGED <<processed_groups, payloads, idx, real_group, mem,
                                         media_urls, album_uploaded_paths, path, noFile>>
                     [] what = "album" ->
                          /\ processed_groups' = processed_groups \cup {message.grouped_id}
                          /\ pc' = "album_fetch"
                          /\ final_text' = message.text
                          /\ UNCHANGED <<payloads, idx, real_group, mem,
                                         media_urls, album_uploaded_paths, path, noFile>>
    /\ UNCHANGED <<env, conn, exit_code, alerts, failed, loaded, scanned, push, store>>
    /\ UNCHANGED <<temp_dir, dedup_failed, db_check_limit, fixed>>

\* a file downloaded into temp_dir
TempFile(c, i) == <<c, i>>

\* a faulty variant of RemoveAfter: the file is removed only when the upload
\* gave a URL
RemoveAfter_OnlyOnSuccess(dir, p, url) == IF url # NoUrl THEN dir \ {p} ELSE dir

\* lines 260-263, 288-291: the finally clause removes the downloaded file
\* whatever the upload returned
RemoveAfter(dir, p, url) == dir \ {p}

\* lines 224-226: the window of ids behind the triggering message, filtered
\* to its group; an empty answer falls back to the triggering message
RealGroup(ms, id, lookup) ==
    LET found == IF lookup = "full"
                 THEN GroupIds(ms, id, id + WindowSize - 1, ms[id].grouped_id)
                 ELSE <<>>
    IN  IF found = <<>> THEN <<id>> ELSE found

AlbumFetch ==
    /\ pc = "album_fetch"
    /\ \E lookup \in {"full", "empty"} :
         real_group' = RealGroup(msgs, idx, lookup)
    /\ mem' = 1
    /\ album_uploaded_paths' = <<>>
    /\ media_urls' = <<>>
    /\ noFile' = 0
    /\ net' = net \cup {"fetch"}
    /\ pc' = "album_dl"
    /\ UNCHANGED <<env, conn, exit_code, processed_groups, payloads, alerts, final_text, path,
                   scan, push, store>>
    /\ UNCHANGED <<temp_dir, dedup_failed, db_check_limit, fixed>>

\* the album loop moves to its next member, or ends and the payload is built
NextMember(urls, paths, text, nf) ==
    IF mem + 1 > Len(real_group)
    THEN EndMessage(Append(payloads,
            Payload(chan, idx, text, urls, "album", msgs[idx].grouped_id)))
    ELSE /\ pc' = "album_dl"
         /\ mem' = mem + 1
         /\ media_urls' = urls
         /\ album_uploaded_paths' = paths
         /\ final_text' = text
         /\ noFile' = nf
         /\ path' = 0
         /\ UNCHANGED <<payloads, idx, real_group>>

\* lines 231-236, 266-267: the next member of the album; its media, if any,
\* is downloaded into temp_dir
AlbumMember ==
    /\ pc = "album_dl"
    /\ LET id == real_group[mem]
           m == msgs[id]
       IN  IF m.media = "none"
           THEN /\ NextMember(media_urls, album_uploaded_paths, NewText(m, final_text), noFile)
                /\ UNCHANGED <<downloads, net, temp_dir>>
           ELSE /\ downloads' = downloads \cup {[ch |-> chan, trigger |-> idx, member |-> id]}
                /\ net' = net \cup {"download"}
                /\ \E d \in {"file", "nothing"} :
                     IF d = "file"
                     THEN /\ pc' = "album_up"
                          /\ path' = id
                          /\ temp_dir' = temp_dir \cup {TempFile(chan, id)}
                          /\ UNCHANGED <<payloads, idx, real_group, mem, media_urls,
                                         album_uploaded_paths, final_text, noFile>>
                     ELSE /\ NextMember(media_urls, album_uploaded_paths,
                                        NewText(m, final_text), noFile + 1)
                          /\ UNCHANGED temp_dir
    /\ UNCHANGED <<env, conn, exit_code, processed_groups, alerts, chan, failed, feed, push,
                   storage, rollbacks, uploads>>
    /\ UNCHANGED <<dedup_failed, db_check_limit, fixed>>

\* ------------------------------------------------------------ media upload
AttemptOutcomes == {"ok", "upload_err", "url_err"}

\* the outcomes of the attempts of one call; the attempts after the first
\* success are never made
UploadRuns ==
    {outs \in [1..max_retries -> AttemptOutcomes] :
        \A a \in 1..max_retries : outs[a] = "ok" => \A b \in a..max_retries : outs[b] = "ok"}

RECURSIVE UploadAttempts(_, _, _, _)
\* lines 65-82: attempt a of the retry loop; stored tells whether an earlier
\* attempt left the object in the bucket (upload done, get_public_url raised),
\* tried lists the remote path of every attempt made
UploadAttempts(outs, remote_path, a, stored) ==
    IF a > max_retries
    THEN [url |-> NoUrl, path |-> NoPath, stored |-> stored, attempts |-> max_retries,
          tried |-> <<>>]
    ELSE IF outs[a] = "ok"
    THEN [url |-> PublicUrl(remote_path), path |-> remote_path, stored |-> TRUE,
          attempts |-> a, tried |-> <<remote_path>>]
    ELSE LET rest == UploadAttempts(outs, remote_path, a + 1, stored \/ outs[a] = "url_err")
         IN  [rest EXCEPT !.tried = <<remote_path>> \o @]

\* a faulty variant of upload_to_supabase_with_retry: after the last failed
\* attempt the remote path is returned with no URL
upload_to_supabase_with_retry_KeepsPath(outs, remote_path) ==
    [UploadAttempts(outs, remote_path, 1, FALSE) EXCEPT !.path = remote_path]

\* lines 55-82
upload_to_supabase_with_retry(outs, remote_path) == UploadAttempts(outs, remote_path, 1, FALSE)

\* lines 84-91: nothing is removed for an empty list, and a failing remove is
\* swallowed
delete_from_supabase(bucket, paths, del) ==
    IF paths = <<>> \/ del = "raise" THEN bucket
    ELSE bucket \ {paths[i] : i \in 1..Len(paths)}

\* a faulty variant of AfterAlbumUpload: a failed upload invalidates the album
\* but the siblings already uploaded are not rolled back
AfterAlbumUpload_NoRollback(r, urls, paths) ==
    IF r.url # NoUrl
    THEN [valid |-> TRUE, urls |-> Append(urls, r.url), paths |-> Append(paths, r.path),
          alert |-> <<>>, remove |-> <<>>]
    ELSE [valid |-> FALSE, urls |-> urls, paths |-> paths,
          alert |-> <<"Upload_Error">>, remove |-> <<>>]

\* lines 243-259: the album loop after one upload returned
AfterAlbumUpload(r, urls, paths) ==
    IF r.url # NoUrl
    THEN [valid |-> TRUE, urls |-> Append(urls, r.url), paths |-> Append(paths, r.path),
          alert |-> <<>>, remove |-> <<>>]
    ELSE [valid |-> FALSE, urls |-> urls, paths |-> paths,
          alert |-> <<"Upload_Error">>,
          remove |-> IF paths # <<>> THEN <<paths>> ELSE <<>>]

\* the position of member pos among the media-bearing members of the album
MediaOrdinal(ms, group, pos) ==
    Cardinality({j \in 1..pos : ms[group[j]].media # "none"})

\* lines 237-263: the downloaded file is uploaded; a failure alerts, rolls the
\* album back and leaves the loop; the temp file is removed either way
AlbumUpload ==
    /\ pc = "album_up"
    /\ \E outs \in UploadRuns, del \in {"ok", "raise"} :
         LET id == real_group[mem]
             r == upload_to_supabase_with_retry(outs, Path(chan, id))
             after == AfterAlbumUpload(r, media_urls, album_uploaded_paths)
             bucket == storage \cup (IF r.stored THEN {Path(chan, id)} ELSE {})
         IN  /\ uploads' = Append(uploads,
                    [ch |-> chan, trigger |-> idx, member |-> id,
                     group |-> msgs[idx].grouped_id,
                     k |-> MediaOrdinal(msgs, real_group, mem),
                     noFile |-> noFile, ok |-> r.url # NoUrl])
             /\ temp_dir' = RemoveAfter(temp_dir, TempFile(chan, id), r.url)
             /\ IF after.valid
                THEN /\ del = "ok"
                     /\ NextMember(after.urls, after.paths,
                                   NewText(msgs[id], final_text), noFile)
                     /\ storage' = bucket
                     /\ UNCHANGED <<alerts, rollbacks>>
                     /\ net' = net \cup {"upload"}
                ELSE /\ IF Escapes(AlertCall(after.alert[1]))
                        THEN Propagate
                        ELSE EndMessage(payloads)
                     /\ alerts' = send_alert(alerts, after.alert[1])
                     /\ IF after.remove # <<>> /\ ~Escapes(AlertCall(after.alert[1]))
                        THEN /\ rollbacks' = Append(rollbacks,
                                    [ch |-> chan, trigger |-> idx, paths |-> after.remove[1]])
                             /\ storage' = delete_from_supabase(bucket, after.remove[1], del)
                        ELSE /\ del = "ok"
                             /\ storage' = bucket
                             /\ UNCHANGED rollbacks
                     /\ net' = net \cup {"upload"} \cup AlertNet
    /\ UNCHANGED <<env, conn, exit_code, processed_groups, chan, failed, feed, push, downloads>>
    /\ UNCHANGED <<dedup_failed, db_check_limit, fixed>>

\* lines 270-275: the media of an ungrouped message is downloaded; without a
\* file nothing is uploaded and the payload is built with no URL
SingleType(message) == IF message.media = "photo" THEN "photo" ELSE "video"

SingleDownload ==
    /\ pc = "single_dl"
    /\ downloads' = downloads \cup {[ch |-> chan, trigger |-> idx, member |-> idx]}
    /\ net' = net \cup {"download"}
    /\ \E d \in {"file", "nothing"} :
         IF d = "file"
         THEN /\ pc' = "single_up"
              /\ path' = idx
              /\ temp_dir' = temp_dir \cup {TempFile(chan, idx)}
              /\ UNCHANGED <<payloads, idx, real_group, mem, media_urls,
                             album_uploaded_paths, final_text, noFile>>
         ELSE /\ EndMessage(Append(payloads,
                    Payload(chan, idx, final_text, <<>>, SingleType(msgs[idx]), 0)))
              /\ UNCHANGED temp_dir
    /\ UNCHANGED <<env, conn, exit_code, processed_groups, alerts, chan, failed, feed, push,
                   storage, rollbacks, uploads>>
    /\ UNCHANGED <<dedup_failed, db_check_limit, fixed>>

\* a faulty variant of AfterSingleUpload: a failed upload is alerted but the
\* record is still built, with no URL
AfterSingleUpload_StillValid(r) ==
    IF r.url # NoUrl
    THEN [valid |-> TRUE, urls |-> <<r.url>>, alert |-> <<>>]
    ELSE [valid |-> TRUE, urls |-> <<>>, alert |-> <<"Upload_Error">>]

\* lines 281-287: the single-media branch after the upload returned
AfterSingleUpload(r) ==
    IF r.url # NoUrl
    THEN [valid |-> TRUE, urls |-> <<r.url>>, alert |-> <<>>]
    ELSE [valid |-> FALSE, urls |-> <<>>, alert |-> <<"Upload_Error">>]

\* lines 276-311
SingleUpload ==
    /\ pc = "single_up"
    /\ \E outs \in UploadRuns :
         LET r == upload_to_supabase_with_retry(outs, Path(chan, idx))
             after == AfterSingleUpload(r)
         IN  /\ uploads' = Append(uploads,
                    [ch |-> chan, trigger |-> idx, member |-> idx, group |-> 0,
                     k |-> 1, noFile |-> 0, ok |-> r.url # NoUrl])
             /\ temp_dir' = RemoveAfter(temp_dir, TempFile(chan, idx), r.url)
             /\ storage' = storage \cup (IF r.stored THEN {Path(chan, idx)} ELSE {})
             /\ IF after.valid
                THEN /\ EndMessage(Append(payloads,
                           Payload(chan, idx, final_text, after.urls,
                                   SingleType(msgs[idx]), 0)))
                     /\ UNCHANGED alerts
                     /\ net' = net \cup {"upload"}
                ELSE /\ IF Escapes(AlertCall(after.alert[1]))
                        THEN Propagate
                        ELSE EndMessage(payloads)
                     /\ alerts' = send_alert(alerts, after.alert[1])
                     /\ net' = net \cup {"upload"} \cup AlertNet
    /\ UNCHANGED <<env, conn, exit_code, processed_groups, chan, failed, feed, push,
                   rollbacks, downloads>>
    /\ UNCHANGED <<dedup_failed, db_check_limit, fixed>>

\* a faulty variant of ScrapeErrorPc: the exception leaves main_logic
ScrapeErrorPc_Abort == "crash"

\* line 317: after the alert the loop over the channels continues
ScrapeErrorPc == "channel"

\* lines 313-317: iter_messages, get_messages or download_media raised; the
\* channel is left, the alert is sent and the next channel follows
ScrapeError ==
    /\ \/ pc \in {"iter", "album_fetch", "single_dl"}
       \/ pc = "album_dl" /\ msgs[real_group[mem]].media # "none"
    /\ failed' = failed \cup {chan}
    /\ alerts' = send_alert(alerts, "Channel_Scrape_Error")
    /\ net' = net \cup AlertNet
           \cup (CASE pc = "iter" -> {"iter"}
                   [] pc = "album_fetch" -> {"fetch"}
                   [] OTHER -> {"download"})
    /\ downloads' = IF pc \in {"single_dl", "album_dl"}
                    THEN downloads \cup {[ch |-> chan, trigger |-> idx,
                           member |-> IF pc = "single_dl" THEN idx ELSE real_group[mem]]}
                    ELSE downloads
    /\ pc' = IF Escapes(AlertCall("Channel_Scrape_Error")) THEN "crash" ELSE ScrapeErrorPc
    /\ chan' = chan + 1
    /\ msgs' = <<>>
    /\ existing_ids_set' = {}
    /\ idx' = 0
    /\ real_group' = <<>>
    /\ mem' = 0
    /\ media_urls' = <<>>
    /\ album_uploaded_paths' = <<>>
    /\ final_text' = <<>>
    /\ path' = 0
    /\ noFile' = 0
    /\ UNCHANGED <<env, conn, exit_code, processed_groups, payloads, loaded, scanned, push,
                   storage, rollbacks, uploads>>
    /\ UNCHANGED <<temp_dir, dedup_failed, db_check_limit, fixed>>

\* ---------------------------------------------------------------- delivery
\* lines 319-324, 347-354: with no payload the run ends, otherwise the batch
\* starts
BeginPush ==
    /\ pc = "channel"
    /\ chan > NumChannels
    /\ IF payloads # <<>>
       THEN /\ pc' = "deliver"
            /\ UNCHANGED exit_code
       ELSE /\ pc' = "done"
            /\ exit_code' = 0
    /\ temp_dir' = {}
    /\ UNCHANGED <<env, conn, processed_groups, payloads, alerts, net, locals, scan, store,
                   push>>
    /\ UNCHANGED <<dedup_failed, db_check_limit, fixed>>

NetworkError == 0
StatusCodes == {200, 204, 500}

\* lines 330-339: how one answer of the webhook is counted
Count(o) == IF o # NetworkError /\ o = 200 THEN "success" ELSE "fail"

\* a 2xx answer
Is2xx(o) == o >= 200 /\ o < 300

\* lines 327-339: one payload is posted; without a URL the post raises
Deliver ==
    /\ pc = "deliver"
    /\ \E o \in StatusCodes \cup {NetworkError} :
         /\ "N8N_WEBHOOK_URL" \notin env => o = NetworkError
         /\ delivered' = IF Is2xx(o) THEN delivered \cup {sent + 1} ELSE delivered
         /\ success_count' = success_count + (IF Count(o) = "success" THEN 1 ELSE 0)
         /\ fail_count' = fail_count + (IF Count(o) = "fail" THEN 1 ELSE 0)
    /\ sent' = sent + 1
    /\ attempts' = Append(attempts, sent + 1)
    /\ net' = net \cup (IF "N8N_WEBHOOK_URL" \in env THEN {"post"} ELSE {})
    /\ pc' = IF sent + 1 = Len(payloads) THEN "summary" ELSE "deliver"
    /\ UNCHANGED <<env, conn, exit_code, processed_groups, payloads, alerts, locals, scan, store>>
    /\ UNCHANGED <<temp_dir, dedup_failed, db_check_limit, fixed>>

\* a faulty variant of SummaryAlerts: the warning is sent after every batch
SummaryAlerts_Always(fails) == <<"Webhook_Warning">>

\* lines 344-345
SummaryAlerts(fails) == IF fails > 0 THEN <<"Webhook_Warning">> ELSE <<>>

\* lines 341-354: the batch is over
Summary ==
    /\ pc = "summary"
    /\ LET a == SummaryAlerts(fail_count)
       IN  /\ alerts' = IF a = <<>> THEN alerts ELSE send_alert(alerts, a[1])
           /\ net' = net \cup (IF a = <<>> THEN {} ELSE AlertNet)
           /\ pc' = IF a # <<>> /\ Escapes(AlertCall(a[1])) THEN "crash" ELSE "done"
           /\ exit_code' = IF a # <<>> /\ Escapes(AlertCall(a[1])) THEN -1 ELSE 0
    /\ UNCHANGED <<env, conn, processed_groups, payloads, locals, scan, push, store>>
    /\ UNCHANGED <<temp_dir, dedup_failed, db_check_limit, fixed>>

Next ==
    \/ LoadEnv
    \/ CrashHandler
    \/ Connect
    \/ ScanChannel
    \/ IterMessage
    \/ AlbumFetch
    \/ AlbumMember
    \/ AlbumUpload
    \/ SingleDownload
    \/ SingleUpload
    \/ ScrapeError
    \/ BeginPush
    \/ Deliver
    \/ Summary

Spec == Init /\ [][Next]_vars

TypeOK ==
    /\ pc \in {"start", "connect", "crash", "exited", "channel", "iter", "album_fetch",
               "album_dl", "album_up", "single_dl", "single_up", "deliver", "summary", "done"}
    /\ exit_code \in {-1, 0, 1}
    /\ sent <= Len(payloads)

\* ------------------------------------------- the channel map, on its own
\* TARGET_CHANNELS is a string; a string is the sequence of its characters
MaxConfigLen == 5
Chars == {"a", ":", ",", " "}
ConfigStrings == SeqsUpTo(Chars, MaxConfigLen)

\* the label given to a channel without one
Uncategorized == <<"U">>

RECURSIVE SplitFrom(_, _, _, _)
\* str.split(sep): the pieces between the separators, at least one piece
SplitFrom(s, sep, i, piece) ==
    IF i > Len(s) THEN <<piece>>
    ELSE IF s[i] = sep THEN <<piece>> \o SplitFrom(s, sep, i + 1, <<>>)
    ELSE SplitFrom(s, sep, i + 1, Append(piece, s[i]))

Split(s, sep) == SplitFrom(s, sep, 1, <<>>)

RECURSIVE LStrip(_)
LStrip(s) == IF s # <<>> /\ s[1] = " " THEN LStrip(Tail(s)) ELSE s

RECURSIVE RStrip(_)
RStrip(s) == IF s # <<>> /\ s[Len(s)] = " " THEN RStrip(SubSeq(s, 1, Len(s) - 1)) ELSE s

\* str.strip()
Strip(s) == RStrip(LStrip(s))

\* sep in s
Contains(s, sep) == \E i \in 1..Len(s) : s[i] = sep

\* channel_map[key] = val
SetItem(map, key, val) == [k \in DOMAIN map \cup {key} |-> IF k = key THEN val ELSE map[k]]

\* lines 114-121: what one item of the list does to channel_map
ResolveItem(map, item) ==
    IF Contains(item, ":")
    THEN LET parts == Split(Strip(item), ":")
         IN  IF Len(parts) = 2
             THEN LET key == Strip(parts[1])
                      val == Strip(parts[2])
                  IN  SetItem(map, key, IF val # <<>> THEN val ELSE Uncategorized)
             ELSE map
    ELSE IF Strip(item) # <<>>
         THEN SetItem(map, Strip(item), Uncategorized)
         ELSE map

RECURSIVE ResolveItems(_, _, _)
\* lines 112-113: the loop over the items
ResolveItems(map, raw_targets, i) ==
    IF i > Len(raw_targets) THEN map
    ELSE ResolveItems(ResolveItem(map, raw_targets[i]), raw_targets, i + 1)

\* lines 111-121
ResolveTargets(target_channels_env) ==
    ResolveItems(<<>>, Split(target_channels_env, ","), 1)

InitResolver ==
    /\ env = Settings
    /\ RunStart
    /\ alert_endpoint = "up"
    /\ source = Source("any")
    /\ archive = [c \in 1..NumChannels |-> {Answer(TRUE, r) : r \in DedupChoices(c)}]
    /\ fetch_limit = 200
    /\ run = 1
    /\ delivered_groups = {}
    /\ arg \in {[config |-> c] : c \in ConfigStrings}
    /\ ret = Idle

\* the channel map is built from the configuration string
Resolve ==
    /\ ret = Idle
    /\ ret' = [channel_map |-> ResolveTargets(arg.config)]
    /\ UNCHANGED <<env, pc, exit_code, conn, processed_groups, payloads, alerts, net,
                   locals, scan, push, store, temp_dir, dedup_failed, db_check_limit>>
    /\ UNCHANGED <<alert_endpoint, source, archive, fetch_limit, run, delivered_groups, arg>>

SpecResolver == InitResolver /\ [][Resolve]_vars

\* ------------------------------------------------- the upload, on its own
\* every outcome of every attempt, for every remote path of the channels
UploadCalls ==
    {[outs |-> o, remote_path |-> Path(c, i)] :
        o \in [1..max_retries -> AttemptOutcomes], c \in 1..NumChannels, i \in 1..MaxMsgs}

InitUpload ==
    /\ env = Settings
    /\ RunStart
    /\ alert_endpoint = "up"
    /\ source = Source("any")
    /\ archive = [c \in 1..NumChannels |-> {Answer(TRUE, r) : r \in DedupChoices(c)}]
    /\ fetch_limit = 200
    /\ run = 1
    /\ delivered_groups = {}
    /\ arg \in UploadCalls
    /\ ret = Idle

\* upload_to_supabase_with_retry is called and returns
Upload ==
    /\ ret = Idle
    /\ ret' = [result |-> upload_to_supabase_with_retry(arg.outs, arg.remote_path)]
    /\ UNCHANGED <<env, pc, exit_code, conn, processed_groups, payloads, alerts, net,
                   locals, scan, push, store, temp_dir, dedup_failed, db_check_limit>>
    /\ UNCHANGED <<alert_endpoint, source, archive, fetch_limit, run, delivered_groups, arg>>

SpecUpload == InitUpload /\ [][Upload]_vars

\* ------------------------------------------- runs whose dedup query may fail
\* the table answers with no row, or the query raises while the table holds
\* the id of the first message
\* FETCH_LIMIT below and above the point where twice the limit passes 1000
FetchLimits == {1, 600}

InitDedup ==
    /\ env = Settings
    /\ RunStart
    /\ alert_endpoint = "up"
    /\ source = Source("plain")
    /\ archive = [c \in 1..NumChannels |-> {Answer(TRUE, {}), Answer(FALSE, {Str(1)})}]
    /\ fetch_limit \in FetchLimits
    /\ run = 1
    /\ delivered_groups = {}
    /\ arg = Idle
    /\ ret = Idle

SpecDedup == InitDedup /\ [][Next]_vars

\* --------------------------------------- runs whose alerts may not go out
\* N8N_WEBHOOK_URL is set and the endpoint answers, or it is set and the POST
\* raises, or it is not set
InitAlert ==
    /\ env \in {Settings, Settings \ {"N8N_WEBHOOK_URL"}}
    /\ RunStart
    /\ alert_endpoint \in {"up", "down"}
    /\ "N8N_WEBHOOK_URL" \notin env => alert_endpoint = "down"
    /\ source = Source("plain")
    /\ archive = [c \in 1..NumChannels |-> {Answer(TRUE, {})}]
    /\ fetch_limit = 200
    /\ run = 1
    /\ delivered_groups = {}
    /\ arg = Idle
    /\ ret = Idle

SpecAlert == InitAlert /\ [][Next]_vars

\* ------------------------------------------- the album window, on its own
\* channels long enough to hold an album that fills the window and goes past
\* it; the messages are members of two albums
WindowFeedLen == WindowSize + 2
TriggerIds == {1, 2}
WindowMsgs == {Msg(FALSE, <<>>, "photo", g) : g \in {1, 2}}

WindowCalls ==
    {[ms |-> ms, id |-> i, lookup |-> l] :
        ms \in {f \in SeqsUpTo(WindowMsgs, WindowFeedLen) : Len(f) >= WindowSize - 1},
        i \in TriggerIds, l \in {"full", "empty"}}

InitWindow ==
    /\ env = Settings
    /\ RunStart
    /\ alert_endpoint = "up"
    /\ source = Source("any")
    /\ archive = [c \in 1..NumChannels |-> {Answer(TRUE, r) : r \in DedupChoices(c)}]
    /\ fetch_limit = 200
    /\ run = 1
    /\ delivered_groups = {}
    /\ arg \in WindowCalls
    /\ ret = Idle

\* lines 224-226 for the triggering message arg.id
Reconcile ==
    /\ ret = Idle
    /\ ret' = [real_group |-> RealGroup(arg.ms, arg.id, arg.lookup)]
    /\ UNCHANGED <<env, pc, exit_code, conn, processed_groups, payloads, alerts, net,
                   locals, scan, push, store, temp_dir, dedup_failed, db_check_limit>>
    /\ UNCHANGED <<alert_endpoint, source, archive, fetch_limit, run, delivered_groups, arg>>

SpecWindow == InitWindow /\ [][Reconcile]_vars

\* ----------------------------------------- runs over albums with captions
InitCaption ==
    /\ env = Settings
    /\ RunStart
    /\ alert_endpoint = "up"
    /\ source = Source("caption")
    /\ archive = [c \in 1..NumChannels |-> {Answer(TRUE, r) : r \in DedupChoices(c)}]
    /\ fetch_limit = 200
    /\ run = 1
    /\ delivered_groups = {}
    /\ arg = Idle
    /\ ret = Idle

SpecCaption == InitCaption /\ [][Next]_vars

\* ------------------------------------------------- two runs, one after the other
InitTwoRuns ==
    /\ env = Settings
    /\ RunStart
    /\ alert_endpoint = "up"
    /\ source \in {Held(h) : h \in
                       {f \in [1..NumChannels -> UNION {RepeatFeeds(c) : c \in 1..NumChannels}] :
                           \A c \in 1..NumChannels : f[c] \in RepeatFeeds(c)}}
    /\ archive = [c \in 1..NumChannels |-> {Answer(TRUE, {})}]
    /\ fetch_limit = 200
    /\ run = 1
    /\ delivered_groups = {}
    /\ arg = Idle
    /\ ret = Idle

\* the message ids of the records of channel c that the webhook accepted: the
\* workflow behind the webhook stores them in daily_post_archive
Archived(c) ==
    {payloads[n].message_id : n \in {k \in delivered : payloads[k].source_channel = c}}

\* the first run has ended; the script is started again over the same
\* channels, and its dedup queries find what the first run delivered
NextRun ==
    /\ run = 1
    /\ pc = "done"
    /\ run' = 2
    /\ archive' = [c \in 1..NumChannels |-> {Answer(TRUE, Archived(c))}]
    /\ delivered_groups' =
          {<<payloads[n].source_channel, payloads[n].group>> :
              n \in {k \in delivered : payloads[k].media_type = "album"}}
    \* every variable of the run starts as in RunStart
    /\ pc' = "start"
    /\ exit_code' = -1
    /\ chan' = 0
    /\ msgs' = <<>>
    /\ existing_ids_set' = {}
    /\ idx' = 0
    /\ processed_groups' = {}
    /\ payloads' = <<>>
    /\ real_group' = <<>>
    /\ mem' = 0
    /\ media_urls' = <<>>
    /\ album_uploaded_paths' = <<>>
    /\ final_text' = <<>>
    /\ path' = 0
    /\ storage' = {}
    /\ sent' = 0
    /\ success_count' = 0
    /\ fail_count' = 0
    /\ alerts' = <<>>
    /\ rollbacks' = <<>>
    /\ uploads' = <<>>
    /\ downloads' = {}
    /\ attempts' = <<>>
    /\ delivered' = {}
    /\ conn' = "none"
    /\ net' = {}
    /\ loaded' = [c \in 1..NumChannels |-> {}]
    /\ scanned' = <<>>
    /\ failed' = {}
    /\ noFile' = 0
    /\ temp_dir' = {}
    /\ dedup_failed' = {}
    /\ db_check_limit' = 0
    /\ UNCHANGED <<env, alert_endpoint, source, fetch_limit, arg, ret>>

NextTwoRuns == Next \/ NextRun

SpecTwoRuns == InitTwoRuns /\ [][NextTwoRuns]_vars

\* ================================================================== claims

Range(q) == {q[i] : i \in 1..Len(q)}

\* the calls of storage remove made for the album triggered by message t of channel c
RollbacksOf(c, t) == {r \in 1..Len(rollbacks) : rollbacks[r].ch = c /\ rollbacks[r].trigger = t}

\* the uploads of the album triggered by message t of channel c made before call j
UploadedBefore(c, t, j) ==
    {l \in 1..(j - 1) : uploads[l].ch = c /\ uploads[l].trigger = t}

Holds(i, p) == PublicUrl(p) \in Range(payloads[i].media_urls)

\* C2: at the end of a run every object left in storage belongs to a
\* DeliveryRecord that was delivered.
C2_NoOrphanAtEnd ==
    pc \in {"done", "exited"} =>
      \A p \in storage : \E i \in 1..Len(payloads) : i \in delivered /\ Holds(i, p)

\* C3: a message whose id, as a string, is in the dedup index loaded for its
\* channel yields no DeliveryRecord, and no download or upload is made with it
\* as the triggering message.
C3_DedupSkips ==
    /\ \A i \in 1..Len(payloads) :
         payloads[i].message_id \notin loaded[payloads[i].source_channel]
    /\ \A d \in downloads : Str(d.trigger) \notin loaded[d.ch]
    /\ \A j \in 1..Len(uploads) : Str(uploads[j].trigger) \notin loaded[uploads[j].ch]

\* C3 happens: the iteration has passed a media message whose id is in the
\* loaded index.
C3_Witness ==
    /\ pc = "iter" /\ idx = 2
    /\ Str(1) \in existing_ids_set
    /\ ~msgs[1].action /\ msgs[1].media # "none"

\* C4: no two accumulated records stand for the same group, and while the
\* siblings of a group are fetched, downloaded or uploaded the group is
\* already in the processed set.
C4_OneRecordPerGroup ==
    /\ \A i, j \in 1..Len(payloads) :
         (i # j /\ payloads[i].group # 0) => payloads[i].group # payloads[j].group
    /\ pc \in {"album_fetch", "album_dl", "album_up"} =>
         msgs[idx].grouped_id \in processed_groups
    /\ \A j \in 1..Len(uploads) :
         uploads[j].group # 0 => uploads[j].group \in processed_groups

\* C4 happens: channel 1 gave a record for a group, and a member of the same
\* group has been met again in channel 2.
C4_Witness ==
    /\ pc = "iter" /\ chan = 2 /\ idx = 2
    /\ msgs[1].grouped_id # 0
    /\ \E i \in 1..Len(payloads) :
         payloads[i].group = msgs[1].grouped_id /\ payloads[i].source_channel = 1

\* every K-th post, and no other, was answered with a non-2xx status or a
\* network error
EveryKthFails(K) == \A i \in 1..sent : (i \notin delivered) <=> (i % K = 0)

\* C5: the dispatcher posts every accumulated record exactly once, in
\* accumulation order; at the end of the batch success_count + fail_count is
\* the number N of records, and when exactly every K-th post fails
\* success_count is N - floor(N / K).
C5_DispatcherCounts ==
    (pc \in {"summary", "done"} /\ payloads # <<>>) =>
      LET N == Len(payloads)
      IN  /\ attempts = [i \in 1..N |-> i]
          /\ success_count + fail_count = N
          /\ \A K \in 1..(N + 1) :
               EveryKthFails(K) => success_count = N - (N \div K)

\* C6: a post counts as a failure exactly when the answer is not a 2xx status
\* or the request raised; every 2xx answer counts as a success.
C6_FailureIffNot2xx ==
    /\ success_count = Cardinality(delivered)
    /\ fail_count = sent - Cardinality(delivered)

Warnings == {i \in 1..Len(alerts) : alerts[i].level = "Webhook_Warning"}

C7_Counts ==
    /\ pc # "done" => Warnings = {}
    /\ pc = "done" => Cardinality(Warnings) = (IF fail_count > 0 THEN 1 ELSE 0)
    /\ \A i, j \in 1..Len(attempts) : i # j => attempts[i] # attempts[j]

\* C7: the warning alert is sent once, after the last post, exactly when
\* fail_count > 0; no post of the batch sends an alert, and no record is
\* posted twice.
C7_OneWarningAfterBatch ==
    /\ []C7_Counts
    /\ [][pc = "deliver" => alerts' = alerts]_vars

\* C7 happens: a batch with a failed and a successful post is over.
C7_Witness == pc = "done" /\ fail_count > 0 /\ success_count > 0

IsPrefix(a, b) == Len(a) <= Len(b) /\ \A i \in 1..Len(a) : a[i] = b[i]

C8_Progress ==
    /\ failed # {} => pc \notin {"crash", "exited"}
    /\ pc \in {"deliver", "summary", "done"} => scanned = [c \in 1..NumChannels |-> c]
    /\ pc = "done" => sent = Len(payloads)

\* C8: an exception while a channel is scanned does not abort the run: the
\* channels after it are scanned, the records accumulated so far are kept, and
\* every accumulated record is posted.
C8_ScrapeErrorContinues ==
    /\ []C8_Progress
    /\ [][IsPrefix(payloads, payloads')]_vars

\* C8 happens: the scan of channel 1 raised after a record was assembled,
\* channel 2 gave another record, and both were posted.
C8_Witness ==
    /\ pc = "done" /\ 1 \in failed
    /\ Len(payloads) = 2 /\ sent = 2
    /\ payloads[1].source_channel = 1 /\ payloads[2].source_channel = 2

Pipeline == {"dedup", "iter", "fetch", "download", "upload", "post"}

\* C9: when connect raises or the session is not authorized, a Fatal alert is
\* sent, the run ends with exit code 1, and no dedup load, channel scan,
\* download, upload or post happens.
C9_ConnectFailureAborts ==
    conn \in {"unauthorized", "raise"} =>
      /\ \E i \in 1..Len(alerts) : alerts[i].level = "Fatal"
      /\ pc \in {"crash", "exited"}
      /\ exit_code # 0
      /\ pc = "exited" => exit_code = 1
      /\ net \cap Pipeline = {}
      /\ scanned = <<>> /\ downloads = {} /\ uploads = <<>> /\ storage = {} /\ sent = 0

\* C9 happens: connect raised and the process has exited.
C9_Witness == conn = "raise" /\ pc = "exited"

\* C10: with any setting missing, the endpoint URL included, the run makes no
\* network activity but an alert.
C10_MissingSettingNoNetwork ==
    ~(Settings \subseteq env) => net \subseteq {"alert"}

\* ---------------------------------------------------------------- C11
\* the items of the configuration string, stripped
Items(config) ==
    LET raw == Split(config, ",") IN [i \in 1..Len(raw) |-> Strip(raw[i])]

\* C11: for every configuration string the resolver returns a mapping whose
\* labels are all non-empty, in which an item 'source:label' maps source to
\* label, a bare 'source' or an item with an empty label maps to the sentinel,
\* and an item that splits into more than two parts is present with the
\* sentinel as its label.
C11_ResolverTotal ==
    ret # Idle =>
        LET map == ret.channel_map
            items == Items(arg.config)
            SoleKey(i, key) ==
                \A j \in 1..Len(items) : j # i => Strip(Split(items[j], ":")[1]) # key
        IN  /\ \A k \in DOMAIN map : map[k] # <<>>
            /\ \A i \in 1..Len(items) :
                   LET parts == Split(items[i], ":")
                       key == Strip(parts[1])
                   IN  /\ items[i] # <<>> => key \in DOMAIN map
                       /\ items[i] # <<>> /\ SoleKey(i, key) =>
                              map[key] = IF Len(parts) = 2 /\ Strip(parts[2]) # <<>>
                                         THEN Strip(parts[2])
                                         ELSE Uncategorized

\* ---------------------------------------------------------------- C12
\* the attempts that succeed
Successes(outs) == {a \in DOMAIN outs : outs[a] = "ok"}

\* C12: the upload makes at most max_retries attempts, all to the same remote
\* path, stops at the first attempt that succeeds and then returns a URL and
\* a path; it returns (None, None) exactly when every attempt fails, and
\* never returns one of the two without the other.
C12_UploadRetries ==
    ret # Idle =>
        LET r == ret.result
            ok == Successes(arg.outs)
        IN  /\ Len(r.tried) <= max_retries
            /\ r.attempts = Len(r.tried)
            /\ \A i \in 1..Len(r.tried) : r.tried[i] = arg.remote_path
            /\ ok # {} =>
                  /\ \A a \in ok : r.attempts <= a
                  /\ r.attempts \in ok
                  /\ r.url # NoUrl
                  /\ r.path = arg.remote_path
            /\ ok = {} => Len(r.tried) = max_retries
            /\ (r.url = NoUrl /\ r.path = NoPath) <=> ok = {}
            /\ r.url = NoUrl <=> r.path = NoPath

\* the first two attempts fail and the third succeeds
C12_Witness ==
    /\ ret # Idle
    /\ Successes(arg.outs) = {max_retries}
    /\ ret.result.url # NoUrl
    /\ ret.result.attempts = max_retries

\* ---------------------------------------------------------------- C13
\* the id of the message a record was built from
TriggerOf(p) == CHOOSE i \in 1..MaxMsgs : Str(i) = p.message_id

\* the media-bearing members of the album reconciled for a record: those
\* whose download was called
MediaMembers(p) ==
    {d.member : d \in {e \in downloads : e.ch = p.source_channel /\ e.trigger = TriggerOf(p)}}

\* the URLs of a set of members of channel c, in id order
UrlsInOrder(c, members) ==
    [k \in 1..Cardinality(members) |->
        PublicUrl(Path(c, CHOOSE m \in members : Cardinality({x \in members : x <= m}) = k))]

\* the upload of member m of channel c returned a URL
Uploaded(c, m) == \E i \in 1..Len(uploads) : uploads[i].ch = c /\ uploads[i].member = m /\ uploads[i].ok

\* C13: every record carries one URL per media item of its source, each of an
\* upload that succeeded: exactly one for a photo or video record, one per
\* media-bearing member in member order for an album record, none for a text
\* record, whatever the downloads and uploads gave.
C13_OneUrlPerMedia ==
    \A n \in 1..Len(payloads) :
        LET p == payloads[n] IN
        /\ p.media_type \in {"photo", "video"} =>
              /\ Len(p.media_urls) = 1
              /\ p.media_urls = UrlsInOrder(p.source_channel, {TriggerOf(p)})
              /\ Uploaded(p.source_channel, TriggerOf(p))
        /\ p.media_type = "album" =>
              /\ p.media_urls = UrlsInOrder(p.source_channel, MediaMembers(p))
              /\ \A m \in MediaMembers(p) : Uploaded(p.source_channel, m)
        /\ p.media_type = "text" => p.media_urls = <<>>

\* ---------------------------------------------------------------- C14
\* the single-media uploads that exhausted their retries
FailedSingles == {i \in 1..Len(uploads) : uploads[i].group = 0 /\ ~uploads[i].ok}

\* no record and no rollback for a single-media message whose upload failed
C14_NoRecordNoRollback ==
    \A i \in FailedSingles :
        /\ \A n \in 1..Len(payloads) :
              ~(/\ payloads[n].source_channel = uploads[i].ch
                /\ payloads[n].message_id = Str(uploads[i].member))
        /\ \A n \in 1..Len(rollbacks) :
              ~(rollbacks[n].ch = uploads[i].ch /\ rollbacks[n].trigger = uploads[i].member)

\* the step in which the upload of a single-media message returns (None, None)
SingleUploadFails ==
    /\ pc = "single_up"
    /\ Len(uploads') = Len(uploads) + 1
    /\ ~uploads'[Len(uploads')].ok

\* C14: when the upload of an ungrouped single-media message exhausts its
\* retries, no record is produced for the message, exactly one Upload_Error
\* alert is emitted, no rollback delete is called, and the loop goes on with
\* the next message of the same channel.
C14_SingleUploadFailure ==
    /\ []C14_NoRecordNoRollback
    /\ [][SingleUploadFails =>
            /\ payloads' = payloads
            /\ alerts' = Append(alerts, AlertCall("Upload_Error"))
            /\ rollbacks' = rollbacks
            /\ pc' = "iter"
            /\ chan' = chan
            /\ msgs' = msgs
            /\ idx' = idx + 1]_vars

\* a single-media upload has failed and the next message of the channel is
\* about to be processed
C14_Witness ==
    /\ pc = "iter"
    /\ idx <= Len(msgs)
    /\ \E i \in FailedSingles : uploads[i].ch = chan /\ uploads[i].member = idx - 1
    /\ \E n \in 1..Len(alerts) : alerts[n].level = "Upload_Error"

\* ---------------------------------------------------------------- C15
\* C15: when the dedup query of a channel fails the index of that channel is
\* empty, the run is not aborted and the channel is not skipped: its messages
\* are classified as with an empty index, every channel is scanned before the
\* delivery starts, and the limit of the query is at least twice FETCH_LIMIT.
C15_DedupFailureIsBestEffort ==
    /\ \A c \in dedup_failed : loaded[c] = {} /\ c \in Range(scanned)
    /\ dedup_failed # {} => pc \notin {"crash", "exited"}
    /\ pc \in {"iter", "album_fetch", "album_dl", "album_up", "single_dl", "single_up"}
          /\ chan \in dedup_failed
       => /\ existing_ids_set = {}
          /\ msgs \in SourceFeeds(chan)
          /\ pc = "iter" /\ idx <= Len(msgs) /\ idx <= fetch_limit =>
                Classify(msgs[idx], idx, existing_ids_set, processed_groups)
                    = Classify(msgs[idx], idx, {}, processed_groups)
    /\ pc \in {"deliver", "summary", "done"} =>
          scanned = [c \in 1..NumChannels |-> c]
    /\ scanned # <<>> => db_check_limit >= 2 * fetch_limit

\* the run ended after the query of a channel failed, with a record of a
\* message of that channel whose id the dedup table holds
C15_Witness ==
    /\ pc = "done"
    /\ fetch_limit > 500
    /\ \E c \in dedup_failed : \E n \in 1..Len(payloads) :
          /\ payloads[n].source_channel = c
          /\ \E a \in archive[c] : payloads[n].message_id \in a.rows

\* ---------------------------------------------------------------- C16
\* the album uploads that failed after a sibling had been uploaded
FailedAfterSibling ==
    {i \in 1..Len(uploads) :
        uploads[i].group # 0 /\ ~uploads[i].ok /\ uploads[i].k - 1 - uploads[i].noFile > 0}

C17_WindowBothEndsIncluded ==
    ret # Idle =>
        LET i == arg.id
            G == arg.ms[i].grouped_id
        IN  ret.real_group = IF arg.lookup = "full"
                             THEN GroupIds(arg.ms, i, i + WindowSize, G)
                             ELSE <<i>>

\* ---------------------------------------------------------------- C18
\* the longest text among the members of an album, the first of them when
\* several are as long, the empty text when no member has any
LongestFirst(ms, group) ==
    LET texts == [k \in 1..Len(group) |-> ms[group[k]].text]
        longest == CHOOSE k \in 1..Len(group) :
                      /\ \A j \in 1..Len(group) : Len(texts[j]) <= Len(texts[k])
                      /\ \A j \in 1..(k - 1) : Len(texts[j]) < Len(texts[k])
    IN  texts[longest]

\* the step in which an album record joins the payloads
AlbumEmitted ==
    /\ Len(payloads') = Len(payloads) + 1
    /\ payloads'[Len(payloads')].media_type = "album"

\* C18: the content of every album record emitted is the longest non-empty
\* text among the members of the reconciled album, ties going to the first
\* in member order, and the empty string when no member has text.
C18_LongestTextFirstWins ==
    [][AlbumEmitted =>
          payloads'[Len(payloads')].content = LongestFirst(msgs, real_group)]_vars

\* an album record whose two members have different texts of equal length
\* carries the first member's text
C18_Witness ==
    /\ pc = "iter"
    /\ chan = 1
    /\ Len(msgs) >= 2
    /\ msgs[1].text = <<1>>
    /\ msgs[2].text = <<2>>
    /\ \E n \in 1..Len(payloads) :
          /\ payloads[n].media_type = "album"
          /\ payloads[n].source_channel = chan
          /\ Len(payloads[n].media_urls) = 2
          /\ payloads[n].content = <<1>>

C20_DeliveredAlbumNotRepeated ==
    run = 2 =>
        \A d \in delivered_groups :
            /\ \A n \in 1..Len(payloads) :
                  ~(payloads[n].source_channel = d[1] /\ payloads[n].group = d[2])
            /\ \A i \in 1..Len(uploads) :
                  ~(uploads[i].ch = d[1] /\ uploads[i].group = d[2])

====
